---------------------------- MODULE Spec2Model ----------------------------
(***************************************************************************)
(* PIVEN: the estimator wrapper (src/src/piven/wrappers.py) and the        *)
(* experiment base model (src/src/piven/models/base.py).                   *)
(*                                                                         *)
(* An ndarray is a record [shape, data]: shape is the tuple of dimensions  *)
(* and data the elements in row-major (C) order, as numpy stores them.     *)
(* Real numbers are fixed point: the value weight v of the third output    *)
(* channel is a numerator over VDen, so a point estimate                   *)
(* v*upper + (1-v)*lower is carried as its numerator over VDen, computed   *)
(* exactly (floating-point rounding is outside the model).                 *)
(***************************************************************************)
EXTENDS Integers, Sequences, FiniteSets, TLC

VARIABLES build_fn, build_calls, wmodel, wcall,
          params, bmodel, files, bcall

wvars == <<build_fn, build_calls, wmodel, wcall>>
bvars == <<params, bmodel, files, bcall>>
vars == <<build_fn, build_calls, wmodel, wcall, params, bmodel, files, bcall>>

---------------------------------------------------------------------------
(* Bounds of the model.                                                    *)

\* longest batch (number of examples N) of a target or a raw output
MaxN == 2
\* target values are drawn from 0..MaxT
MaxT == 1
\* raw interval bounds are drawn from -1..MaxVal
MaxVal == 2
\* widest rank-2 target
MaxCols == 3
\* the model-builder is invoked at most MaxBuilds times
MaxBuilds == 2

\* denominator of the fixed-point value weight v (v = numerator / VDen)
VDen == 10

---------------------------------------------------------------------------
(* numpy arrays                                                            *)

Array(shape, data) == [shape |-> shape, data |-> data]

\* no array at all (distinct from every ndarray: a rank-0 array holds one element)
NoArray == Array(<<>>, <<>>)

Rank(a) == Len(a.shape)

\* y.reshape(-1, 1): one column, the row count inferred from the size
ReshapeColumn(a) == Array(<<Len(a.data), 1>>, a.data)

\* the i-th slice of a along axis 0 (1-based), flattened
Slice0(a, i) ==
    LET rs == Len(a.data) \div a.shape[1]
    IN  SubSeq(a.data, (i - 1) * rs + 1, i * rs)

RECURSIVE Interleave(_, _, _)
Interleave(a, b, i) ==
    IF i > a.shape[1] THEN <<>>
    ELSE Slice0(a, i) \o Slice0(b, i) \o Interleave(a, b, i + 1)

\* np.stack((a, b), axis=1) of two arrays of one shape [N, ...]: a new axis of
\* length 2 is inserted at position 1, so the result has shape [N, 2, ...]
StackAxis1(a, b) ==
    Array(<<a.shape[1], 2>> \o Tail(a.shape), Interleave(a, b, 1))

\* a[:, j] of a rank-2 array (j is 0-based, as in the source)
Column(a, j) ==
    [i \in 1..a.shape[1] |-> a.data[(i - 1) * a.shape[2] + j + 1]]

\* a.flatten() of a rank-1 array held as a sequence: a copy in the same order
Flatten(s) == [i \in 1..Len(s) |-> s[i]]

---------------------------------------------------------------------------
(* PivenModelWrapper (wrappers.py)                                         *)

\* the kinds of build_fn the constructor may be given
BuildFnKinds == {"None", "Callable", "Function"}

\* NormalizeTarget without its final else: every rank above 1 passes through
NormalizeTargetLax(y) ==
    IF Rank(y) = 1
    THEN [ok |-> TRUE, y |-> StackAxis1(ReshapeColumn(y), ReshapeColumn(y))]
    ELSE IF Rank(y) >= 2 /\ y.shape[2] = 1
         THEN [ok |-> TRUE, y |-> StackAxis1(y, y)]
         ELSE [ok |-> TRUE, y |-> y]

\* the shape check and replication at the head of fit: ok is FALSE where fit
\* raises ValueError, otherwise y is the array fit goes on with
NormalizeTarget(y) ==
    IF Rank(y) = 1
    THEN [ok |-> TRUE, y |-> StackAxis1(ReshapeColumn(y), ReshapeColumn(y))]
    ELSE IF Rank(y) = 2
         THEN IF y.shape[2] = 1
              THEN [ok |-> TRUE, y |-> StackAxis1(y, y)]
              ELSE [ok |-> TRUE, y |-> y]
         ELSE [ok |-> FALSE, y |-> NoArray]

\* which callable builds the model, by the kind of build_fn
BuildVia(kind) ==
    IF kind = "None" THEN "self.__call__"
    ELSE IF kind = "Callable" THEN "build_fn.__call__"
    ELSE "build_fn"

\* Fit with the model built before the shape of y is checked
FitBuildsFirst(y) ==
    LET n == NormalizeTarget(y)
    IN  /\ build_calls < MaxBuilds
        /\ build_calls' = build_calls + 1
        /\ wmodel' = build_calls + 1
        /\ wcall' = [op |-> "fit", y |-> y, rpi |-> FALSE,
                     err |-> IF n.ok THEN "none" ELSE "ValueError",
                     via |-> BuildVia(build_fn),
                     handed |-> n.y, ret |-> <<>>]
        /\ UNCHANGED build_fn
        /\ UNCHANGED bvars

\* fit(x, y): check and normalise y, build the model, hand y to the model's fit
Fit(y) ==
    LET n == NormalizeTarget(y)
    IN  IF ~n.ok
        THEN /\ wcall' = [op |-> "fit", y |-> y, rpi |-> FALSE,
                          err |-> "ValueError", via |-> "none",
                          handed |-> NoArray, ret |-> <<>>]
             /\ UNCHANGED <<build_fn, build_calls, wmodel>>
             /\ UNCHANGED bvars
        ELSE /\ build_calls < MaxBuilds
             /\ build_calls' = build_calls + 1
             /\ wmodel' = build_calls + 1
             /\ wcall' = [op |-> "fit", y |-> y, rpi |-> FALSE,
                          err |-> "none", via |-> BuildVia(build_fn),
                          handed |-> n.y, ret |-> <<>>]
             /\ UNCHANGED build_fn
             /\ UNCHANGED bvars

\* Blend with (1 + v) for (1 - v)
BlendSignSlip(v, upper, lower) ==
    [i \in 1..Len(v) |-> v[i] * upper[i] + (VDen + v[i]) * lower[i]]

\* y_value_pred * y_upper_pred + (1 - y_value_pred) * y_lower_pred, elementwise;
\* v is a numerator over VDen and so is the result
Blend(v, upper, lower) ==
    [i \in 1..Len(v) |-> v[i] * upper[i] + (VDen - v[i]) * lower[i]]

\* PredictResult with the two bound channels read the other way round
PredictResultSwapped(yhat, return_prediction_intervals) ==
    LET y_upper_pred == Column(yhat, 1)
        y_lower_pred == Column(yhat, 0)
        y_value_pred == Column(yhat, 2)
        y_out == [i \in 1..Len(y_value_pred) |->
                     y_value_pred[i] * y_upper_pred[i]
                         + (VDen - y_value_pred[i]) * y_lower_pred[i]]
    IN  IF return_prediction_intervals
        THEN <<Flatten(y_out), Flatten(y_lower_pred), Flatten(y_upper_pred)>>
        ELSE Flatten(y_out)

\* what predict returns for the raw output yhat of the model
PredictResult(yhat, return_prediction_intervals) ==
    LET y_upper_pred == Column(yhat, 0)
        y_lower_pred == Column(yhat, 1)
        y_value_pred == Column(yhat, 2)
        y_out == Blend(y_value_pred, y_upper_pred, y_lower_pred)
    IN  IF return_prediction_intervals
        THEN <<Flatten(y_out), Flatten(y_lower_pred), Flatten(y_upper_pred)>>
        ELSE Flatten(y_out)

\* predict(x, return_prediction_intervals): yhat is what self.model.predict gives
Predict(yhat, rpi) ==
    /\ IF wmodel = 0
       THEN wcall' = [op |-> "predict", y |-> yhat, rpi |-> rpi,
                      err |-> "AttributeError", via |-> "none",
                      handed |-> NoArray, ret |-> <<>>]
       ELSE wcall' = [op |-> "predict", y |-> yhat, rpi |-> rpi,
                      err |-> "none", via |-> "none",
                      handed |-> NoArray, ret |-> PredictResult(yhat, rpi)]
    /\ UNCHANGED <<build_fn, build_calls, wmodel>>
    /\ UNCHANGED bvars

---------------------------------------------------------------------------
(* Inputs of the wrapper                                                   *)

Ns == 1..MaxN
TVals == 0..MaxT
Vals == -1..MaxVal
\* value weights: every multiple of 1/VDen in [0,1], and one beyond each end
VNums == -1..(VDen + 1)

Ramp(k) == [i \in 1..k |-> i % (MaxT + 1)]

FlatTargets == UNION {{Array(<<n>>, d) : d \in [1..n -> TVals]} : n \in Ns}
ColumnTargets == UNION {{Array(<<n, 1>>, d) : d \in [1..n -> TVals]} : n \in Ns}
TwoColumnTargets ==
    UNION {{Array(<<n, 2>>, d) : d \in [1..(2 * n) -> TVals]} : n \in Ns}
WideTargets == {Array(<<n, c>>, Ramp(n * c)) : n \in Ns, c \in 3..MaxCols}
Rank0Targets == {Array(<<>>, <<t>>) : t \in TVals}
HighRankTargets ==
    {Array(<<n, c, 1>>, Ramp(n * c)) : n \in Ns, c \in 1..2}
        \cup {Array(<<1, 1, 1, 1>>, <<0>>)}

Targets == FlatTargets \cup ColumnTargets \cup TwoColumnTargets
               \cup WideTargets \cup Rank0Targets \cup HighRankTargets

\* the worked example of the blend: upper = 10, lower = 2, v = 0.3
ExampleRow == <<10, 2, 3>>
Rows == (Vals \X Vals \X VNums) \cup {ExampleRow}

RECURSIVE Concat(_, _)
Concat(rs, i) == IF i > Len(rs) THEN <<>> ELSE rs[i] \o Concat(rs, i + 1)

\* rows that fill a batch: the worked example and an inverted interval
FillRows == {ExampleRow, <<-1, 0, VDen \div 2>>}

\* raw outputs of shape [n, 3]: one row is any of Rows, the others fill rows
RawOutputs ==
    UNION {{Array(<<nk[1], 3>>,
                  Concat([i \in 1..nk[1] |-> IF i = nk[2] THEN r ELSE f[i]], 1)) :
               r \in Rows, f \in [1..nk[1] -> FillRows]} :
           nk \in {x \in Ns \X Ns : x[2] <= x[1]}}

\* no call made yet, or the last call's record dropped
NoCall == [op |-> "none", y |-> NoArray, rpi |-> FALSE, err |-> "none",
           via |-> "none", handed |-> NoArray, ret |-> <<>>]

WrapperInit ==
    /\ build_fn \in BuildFnKinds
    /\ build_calls = 0
    /\ wmodel = 0
    /\ wcall = NoCall

\* the caller is done with the outcome of the last call (wcall only records
\* it; the wrapper's own fields are untouched)
Return ==
    /\ wcall.op # "none"
    /\ wcall' = NoCall
    /\ UNCHANGED <<build_fn, build_calls, wmodel>>
    /\ UNCHANGED bvars

\* fit with a fresh target
FitFresh == wcall.op = "none" /\ \E y \in Targets : Fit(y)

\* fit with the array the last fit handed to the model
FitAgain == wcall.handed # NoArray /\ Fit(wcall.handed)

PredictAny ==
    /\ wcall.op = "none"
    /\ \E yhat \in RawOutputs, rpi \in BOOLEAN : Predict(yhat, rpi)

---------------------------------------------------------------------------
(* PivenBaseModel (models/base.py)                                         *)
(*                                                                         *)
(* params is the dict of keyword arguments given to the constructor, held  *)
(* as a record of options: <<>> where the key is absent and <<v>> where it *)
(* is v. alpha is in hundredths (5 is 0.05), soften and lambda_ in units.  *)
(* bmodel is 0 while self.model is None. files is the set of <<directory,  *)
(* name>> entries written so far.                                          *)

\* the soften and alpha that score hands to the loss (160.0 and 0.05)
ScoreSoften == 160
ScoreAlpha == 5

\* dict.get(key): <<>> is None
Get(d, key) == d[key]

\* __init__(**model_params): the fields of the new instance
BaseInit(model_params) == [params |-> model_params, model |-> 0]

\* Path(path).is_dir(): "out" is a directory, "missing" is none, and
\* "out/model" is one once log has created it
IsDir(fs, path) ==
    \/ path = "out"
    \/ path = "out/model" /\ <<"out", "model">> \in fs

\* the arguments score gives piven_loss_numpy after the four arrays
LossArgs(d) == <<Get(d, "lambda_"), <<ScoreSoften>>, <<ScoreAlpha>>>>

\* the files save(path) writes: the params, then the model (save_piven_model)
SaveFiles(path) == {<<path, "experiment_params.json">>, <<path, "saved_model">>}

\* predict(x, return_prediction_intervals)
BasePredict(yhat, rpi) ==
    /\ IF bmodel = 0
       THEN bcall' = [op |-> "predict", path |-> "none", err |-> "NotFittedError",
                      events |-> <<>>, loss |-> <<>>, ret |-> <<>>]
       ELSE bcall' = [op |-> "predict", path |-> "none", err |-> "none",
                      events |-> <<>>, loss |-> <<>>,
                      ret |-> PredictResult(yhat, rpi)]
    /\ UNCHANGED <<params, bmodel, files, wvars>>

\* BaseSave without the check that a model exists
BaseSaveUnchecked(path) ==
    IF ~IsDir(files, path)
    THEN /\ bcall' = [op |-> "save", path |-> path, err |-> "OSError",
                      events |-> <<>>, loss |-> <<>>, ret |-> <<>>]
         /\ UNCHANGED <<params, bmodel, files, wvars>>
    ELSE /\ bcall' = [op |-> "save", path |-> path,
                      err |-> IF bmodel = 0 THEN "AttributeError" ELSE "none",
                      events |-> <<"write experiment_params.json",
                                   "save_piven_model">>,
                      loss |-> <<>>, ret |-> <<>>]
         /\ files' = files \cup {<<path, "experiment_params.json">>}
         /\ UNCHANGED <<params, bmodel, wvars>>

\* save(path)
BaseSave(path) ==
    IF bmodel = 0
    THEN /\ bcall' = [op |-> "save", path |-> path, err |-> "NotFittedError",
                      events |-> <<>>, loss |-> <<>>, ret |-> <<>>]
         /\ UNCHANGED <<params, bmodel, files, wvars>>
    ELSE IF ~IsDir(files, path)
    THEN /\ bcall' = [op |-> "save", path |-> path, err |-> "OSError",
                      events |-> <<>>, loss |-> <<>>, ret |-> <<>>]
         /\ UNCHANGED <<params, bmodel, files, wvars>>
    ELSE /\ bcall' = [op |-> "save", path |-> path, err |-> "none",
                      events |-> <<"write experiment_params.json",
                                   "save_piven_model">>,
                      loss |-> <<>>, ret |-> <<>>]
         /\ files' = files \cup SaveFiles(path)
         /\ UNCHANGED <<params, bmodel, wvars>>

\* fit(x, y): self.model.fit, an AttributeError while self.model is None
BaseFit ==
    /\ bcall' = [op |-> "fit", path |-> "none",
                 err |-> IF bmodel = 0 THEN "AttributeError" ELSE "none",
                 events |-> <<>>, loss |-> <<>>, ret |-> <<>>]
    /\ UNCHANGED <<params, bmodel, files, wvars>>

\* build(**build_params) of a concrete model: it assigns self.model
BaseBuild ==
    /\ bmodel = 0
    /\ bmodel' = 1
    /\ bcall' = [op |-> "build", path |-> "none", err |-> "none",
                 events |-> <<>>, loss |-> <<>>, ret |-> <<>>]
    /\ UNCHANGED <<params, files, wvars>>

\* score(y_true, y_pred, y_pi_low, y_pi_high); loss_raises: the loss function
\* itself failed (possible only on a lambda_ of None)
BaseScore(loss_raises) ==
    /\ loss_raises => Get(params, "lambda_") = <<>>
    /\ bcall' = [op |-> "score", path |-> "none",
                 err |-> IF loss_raises THEN "TypeError" ELSE "none",
                 events |-> <<>>, loss |-> LossArgs(params), ret |-> <<>>]
    /\ UNCHANGED <<params, bmodel, files, wvars>>

\* LogRun with the prediction made before the directory is checked
LogRunPredictFirst(fs, fitted, d, path, model, predictions, loss_raises) ==
    IF ~fitted
    THEN [err |-> "NotFittedError", events |-> <<>>, loss |-> <<>>]
    ELSE IF ~IsDir(fs, path)
    THEN [err |-> "NotADirectoryError", events |-> <<"predict">>, loss |-> <<>>]
    ELSE IF loss_raises
    THEN [err |-> "TypeError", events |-> <<"predict", "score">>,
          loss |-> LossArgs(d)]
    ELSE IF model /\ <<path, "model">> \in fs
    THEN [err |-> "FileExistsError",
          events |-> <<"predict", "score", "write metrics.json">>,
          loss |-> LossArgs(d)]
    ELSE [err |-> "none",
          events |-> <<"predict", "score", "write metrics.json">>
                       \o (IF model
                           THEN <<"mkdir model",
                                  "write model/experiment_params.json",
                                  "save_piven_model">>
                           ELSE <<>>)
                       \o (IF predictions THEN <<"write predictions.csv">>
                           ELSE <<>>),
          loss |-> LossArgs(d)]

\* the steps of log(x, y, path, model, predictions) in the order they run, up to
\* the first that raises: [err, events, loss]
LogRun(fs, fitted, d, path, model, predictions, loss_raises) ==
    IF ~IsDir(fs, path)
    THEN [err |-> "NotADirectoryError", events |-> <<>>, loss |-> <<>>]
    ELSE IF ~fitted
    THEN [err |-> "NotFittedError", events |-> <<>>, loss |-> <<>>]
    ELSE IF loss_raises
    THEN [err |-> "TypeError", events |-> <<"predict", "score">>,
          loss |-> LossArgs(d)]
    ELSE LET head == <<"predict", "score", "write metrics.json">>
             mkdir_fails == model /\ <<path, "model">> \in fs
             saved == IF model
                      THEN <<"mkdir model", "write model/experiment_params.json",
                             "save_piven_model">>
                      ELSE <<>>
             csv == IF predictions THEN <<"write predictions.csv">> ELSE <<>>
         IN  IF mkdir_fails
             THEN [err |-> "FileExistsError", events |-> head,
                   loss |-> LossArgs(d)]
             ELSE [err |-> "none", events |-> head \o saved \o csv,
                   loss |-> LossArgs(d)]

\* the file an event of log writes under path (none for the other events)
EventFiles(path, e) ==
    IF e = "write metrics.json" THEN {<<path, "metrics.json">>}
    ELSE IF e = "mkdir model" THEN {<<path, "model">>}
    ELSE IF e = "write model/experiment_params.json"
    THEN {<<"out/model", "experiment_params.json">>}
    ELSE IF e = "save_piven_model" THEN {<<"out/model", "saved_model">>}
    ELSE IF e = "write predictions.csv" THEN {<<path, "predictions.csv">>}
    ELSE {}

\* log(x, y, path, model, predictions)
BaseLog(path, model, predictions, loss_raises) ==
    LET r == LogRun(files, bmodel # 0, params, path, model, predictions,
                    loss_raises)
    IN  /\ loss_raises => Get(params, "lambda_") = <<>>
        /\ bcall' = [op |-> "log", path |-> path, err |-> r.err,
                     events |-> r.events, loss |-> r.loss,
                     ret |-> <<model, predictions>>]
        /\ files' = files \cup
                      UNION {EventFiles(path, r.events[i]) : i \in 1..Len(r.events)}
        /\ UNCHANGED <<params, bmodel, wvars>>

---------------------------------------------------------------------------
(* Inputs of the base model                                                *)

LambdaOpts == {<<>>, <<15>>}
SoftenOpts == {<<>>, <<-5>>, <<0>>, <<100>>, <<160>>}
AlphaOpts == {<<>>, <<0>>, <<5>>, <<10>>, <<100>>}
ParamDicts ==
    {[lambda_ |-> l, soften |-> s, alpha |-> a] :
        l \in LambdaOpts, s \in SoftenOpts, a \in AlphaOpts}

SavePaths == {"out", "missing", "out/model"}
LogPaths == {"out", "missing"}
BaseRawOutputs == {Array(<<1, 3>>, r) : r \in FillRows}

InitCall == [op |-> "init", path |-> "none", err |-> "none",
             events |-> <<>>, loss |-> <<>>, ret |-> <<>>]

BaseModelInit ==
    /\ \E d \in ParamDicts :
          /\ params = BaseInit(d).params
          /\ bmodel = BaseInit(d).model
    /\ files = {}
    /\ bcall = InitCall

BasePredictAny ==
    \E yhat \in BaseRawOutputs, rpi \in BOOLEAN : BasePredict(yhat, rpi)

BaseSaveAny == \E path \in SavePaths : BaseSave(path)

BaseScoreAny == \E raises \in BOOLEAN : BaseScore(raises)

BaseLogAny ==
    \E path \in LogPaths, m \in BOOLEAN, p \in BOOLEAN, raises \in BOOLEAN :
        BaseLog(path, m, p, raises)

---------------------------------------------------------------------------
(* Specifications                                                          *)

\* the wrapper alone: the base model stays as constructed with no params
Init ==
    /\ WrapperInit
    /\ params = [lambda_ |-> <<>>, soften |-> <<>>, alpha |-> <<>>]
    /\ bmodel = 0
    /\ files = {}
    /\ bcall = InitCall

Next ==
    \/ FitFresh
    \/ FitAgain
    \/ PredictAny
    \/ Return

Spec == Init /\ [][Next]_vars

\* the base model alone: the wrapper stays as constructed
InitBase ==
    /\ BaseModelInit
    /\ build_fn = "None"
    /\ build_calls = 0
    /\ wmodel = 0
    /\ wcall = NoCall

NextBase ==
    \/ BaseBuild
    \/ BaseFit
    \/ BasePredictAny
    \/ BaseSaveAny
    \/ BaseScoreAny
    \/ BaseLogAny

SpecBase == InitBase /\ [][NextBase]_vars

---------------------------------------------------------------------------
(* Properties of PivenModelWrapper, checked under Spec                     *)

\* the last call was a predict that returned
PredictReturned == wcall.op = "predict" /\ wcall.err = "none"

\* channel c (1-based) of example i of the raw output of the last predict
Raw(i, c) == wcall.y.data[3 * (i - 1) + c]

\* the point estimates the last predict returned
ReturnedPoint == IF wcall.rpi THEN wcall.ret[1] ELSE wcall.ret

\* C1: predict reads channel 0 as y_upper, channel 1 as y_lower and channel 2
\* as v, computes the point estimate v*y_upper + (1-v)*y_lower elementwise, and
\* returns (point, y_lower, y_upper) in that order with the bounds exactly the
\* raw channels when intervals are requested, and the point estimate alone
\* otherwise.
C1_PredictDemultiplexes ==
    PredictReturned =>
        LET n == wcall.y.shape[1]
            point == [i \in 1..n |->
                         Raw(i, 3) * Raw(i, 1) + (VDen - Raw(i, 3)) * Raw(i, 2)]
            lower == [i \in 1..n |-> Raw(i, 2)]
            upper == [i \in 1..n |-> Raw(i, 1)]
        IN  IF wcall.rpi
            THEN wcall.ret = <<point, lower, upper>>
            ELSE wcall.ret = point

\* C1 witness: a predict over two examples with intervals requested, one of them
\* an inverted interval that comes back inverted
C1_Witness ==
    /\ PredictReturned
    /\ wcall.rpi
    /\ wcall.y.shape[1] = 2
    /\ \E i \in 1..2 : Raw(i, 2) > Raw(i, 1) /\ wcall.ret[2][i] > wcall.ret[3][i]
    /\ \E i \in 1..2 : Raw(i, 2) < Raw(i, 1)

FitAccepted == wcall.op = "fit" /\ wcall.err = "none"

\* the target of the last call is flat or has a single column
SingleColumn(y) == Rank(y) = 1 \/ (Rank(y) = 2 /\ y.shape[2] = 1)

\* C3: a flat or single-column target reaches the model's fit as an array of
\* shape [N, 2] whose two columns both equal the original target.
C3_TwoColumnPair ==
    (FitAccepted /\ SingleColumn(wcall.y)) =>
        /\ wcall.handed.shape = <<wcall.y.shape[1], 2>>
        /\ Column(wcall.handed, 0) = wcall.y.data
        /\ Column(wcall.handed, 1) = wcall.y.data

\* C4: the array made from a flat target, fed through the same normalization
\* again, is accepted and comes out unchanged, as does any two-column target.
C4_NormalizeIdempotent ==
    /\ (FitAccepted /\ Rank(wcall.y) = 1) =>
          /\ NormalizeTarget(wcall.handed).ok
          /\ NormalizeTarget(wcall.handed).y = wcall.handed
    /\ (wcall.op = "fit" /\ Rank(wcall.y) = 2 /\ wcall.y.shape[2] = 2) =>
          /\ wcall.err = "none"
          /\ wcall.handed = wcall.y

\* C5 as stated: fit rejects every target that is neither flat, single-column
\* nor two-column: rank 0, rank 3 or more, and rank 2 with three or more columns.
C5_RejectsEveryOtherShape ==
    (wcall.op = "fit"
        /\ (Rank(wcall.y) = 0 \/ Rank(wcall.y) >= 3
              \/ (Rank(wcall.y) = 2 /\ wcall.y.shape[2] >= 3)))
      => wcall.err = "ValueError"

\* C5 as amended: fit rejects exactly the targets whose rank is not 1 or 2 (rank
\* 0, rank 3 or more); a rank-2 target with three or more columns is not
\* rejected, it reaches the model's fit unchanged.
C5_RejectsByRank ==
    wcall.op = "fit" =>
        /\ wcall.err = "ValueError" <=> Rank(wcall.y) \notin {1, 2}
        /\ (Rank(wcall.y) = 2 /\ wcall.y.shape[2] >= 3)
              => (wcall.err = "none" /\ wcall.handed = wcall.y)

\* C5 witness: rejected targets of rank 3 are reached (rank 0 likewise)
C5_Witness ==
    /\ wcall.op = "fit"
    /\ Rank(wcall.y) = 3
    /\ wcall.err = "ValueError"

\* C6: a fit that rejects its target for its shape has not invoked the
\* model-builder, has handed nothing to the model's fit, and leaves the model
\* attribute as it was.
C6_RejectsBeforeBuild ==
    [][(wcall'.op = "fit" /\ wcall'.err = "ValueError")
          => /\ build_calls' = build_calls
             /\ wmodel' = wmodel
             /\ wcall'.via = "none"
             /\ wcall'.handed = NoArray]_vars

\* C6 witness: a rejected fit on a wrapper that holds a model from an earlier fit
C6_Witness ==
    /\ wcall.op = "fit"
    /\ wcall.err = "ValueError"
    /\ wmodel = 1
    /\ build_calls = 1

---------------------------------------------------------------------------
(* Properties of PivenBaseModel, checked under SpecBase                    *)

\* C7: while model is None, predict and save fail with NotFitted, save writes
\* no file, and params and model stay as they were.
C7_NotFitted ==
    [][(bmodel = 0 /\ bcall'.op \in {"predict", "save"})
          => /\ bcall'.err = "NotFittedError"
             /\ files' = files
             /\ params' = params
             /\ bmodel' = 0]_vars

\* C7 witness: a save into an existing directory failed on an unbuilt model
C7_Witness ==
    /\ bcall.op = "save"
    /\ bcall.path = "out"
    /\ bcall.err = "NotFittedError"
    /\ bmodel = 0
    /\ files = {}

\* a configured hyperparameter, or its default where it is not configured
OrDefault(opt, default) == IF opt = <<>> THEN <<default>> ELSE opt

\* C8: the loss score computes uses the configured lambda_, the configured
\* soften and the configured alpha, and 160.0 and 0.05 only where soften and
\* alpha are not configured.
C8_HyperparametersThreaded ==
    bcall.op = "score" =>
        bcall.loss = <<Get(params, "lambda_"),
                       OrDefault(Get(params, "soften"), 160),
                       OrDefault(Get(params, "alpha"), 5)>>

\* the hyperparameters the loss accepts: lambda_ given, soften positive, alpha
\* strictly between 0 and 1 (in hundredths); soften and alpha may be left out
ValidHyperparameters(d) ==
    /\ Get(d, "lambda_") # <<>>
    /\ Get(d, "soften") # <<>> => Get(d, "soften")[1] > 0
    /\ Get(d, "alpha") # <<>> =>
          (0 < Get(d, "alpha")[1] /\ Get(d, "alpha")[1] < 100)

\* C9: invalid hyperparameters are rejected at construction: no instance exists
\* with alpha = 0, alpha = 1, soften <= 0 or no lambda_, and no loss is ever
\* evaluated with lambda_ None.
C9_InvalidRejectedEagerly ==
    /\ ValidHyperparameters(params)
    /\ bcall.loss # <<>> => bcall.loss[1] # <<>>

\* the events of a log that ran to its end
LogEventsDone(model, predictions) ==
    <<"predict", "score", "write metrics.json">>
        \o (IF model
            THEN <<"mkdir model", "write model/experiment_params.json",
                   "save_piven_model">>
            ELSE <<>>)
        \o (IF predictions THEN <<"write predictions.csv">> ELSE <<>>)

\* the files a log that ran to its end has written under "out"
LogFilesDone(model, predictions) ==
    {<<"out", "metrics.json">>}
        \cup (IF model
              THEN {<<"out", "model">>} \cup SaveFiles("out/model")
              ELSE {})
        \cup (IF predictions THEN {<<"out", "predictions.csv">>} ELSE {})

\* C10: log checks the directory first (NotADirectoryError before any prediction
\* or file, fitted or not), then predicts (NotFitted before metrics.json), then
\* writes metrics.json, then creates and saves the model directory only if
\* model, then writes predictions.csv only if predictions.
C10_LogOrder ==
    [][bcall'.op = "log" =>
          LET e == bcall'.events
              isdir == IsDir(files, bcall'.path)
              model == bcall'.ret[1]
              predictions == bcall'.ret[2]
          IN  /\ ~isdir => /\ bcall'.err = "NotADirectoryError"
                           /\ e = <<>>
                           /\ files' = files
              /\ (isdir /\ bmodel = 0) => /\ bcall'.err = "NotFittedError"
                                          /\ e = <<>>
                                          /\ files' = files
              /\ (isdir /\ bmodel # 0 /\ bcall'.err = "none")
                    => /\ e = LogEventsDone(model, predictions)
                       /\ files' = files \cup LogFilesDone(model, predictions)
              /\ \A i \in 1..Len(e) :
                    /\ e[i] \in {"mkdir model", "write model/experiment_params.json",
                                 "save_piven_model", "write predictions.csv"}
                          => (i > 3 /\ e[3] = "write metrics.json")
                    /\ e[i] = "mkdir model" => model
                    /\ e[i] = "write predictions.csv" => (predictions /\ i = Len(e))
              /\ files' # files => <<"out", "metrics.json">> \in files']_vars

\* C10 witness: a log with model and predictions both requested ran to its end
C10_Witness ==
    /\ bcall.op = "log"
    /\ bcall.err = "none"
    /\ bcall.ret = <<TRUE, TRUE>>
    /\ Len(bcall.events) = 7
    /\ {<<"out", "metrics.json">>, <<"out", "model">>,
        <<"out", "predictions.csv">>} \subseteq files

=============================================================================
